---- MODULE Spec2Model ----
(***************************************************************************)
(* Model of the weewx alarm service (bin/user/alarm.py): AlarmSvc, which   *)
(* parses the [Alarms] configuration and spawns one thread per ARCHIVE     *)
(* record; Alarm, which evaluates its rule and triggers on a change of     *)
(* state; Mailer, which sends the notification through an SMTP relay.      *)
(***************************************************************************)
EXTENDS Integers, Sequences, FiniteSets, TLC

VARIABLES
    cfg,        \* config_dict handed to AlarmSvc.__init__
    svc,        \* outcome of AlarmSvc.__init__: "new", "bound", "inert", "raised"
    alarms,     \* self.alarms: the Alarm objects' immutable fields
    state,      \* Alarm.state of each alarm in self.alarms
    stop,       \* self.stop: "noattr" (never created), "clear" or "set"
    tasks,      \* the per-record threads: position and local variables
    ntasks,     \* number of records the host has delivered
    mails,      \* every call of Mailer.send so far, with its outcome
    hostexc     \* exceptions that reached the host (the weewx engine)

vars == <<cfg, svc, alarms, state, stop, tasks, ntasks, mails, hostexc>>

(***************************************************************************)
(* Bounds of the model.                                                    *)
(***************************************************************************)
MaxRecords == 2     \* records delivered by the host in one run
MaxAlarms == 2      \* alarm sections in the [Alarms] group

(***************************************************************************)
(* Python values.  True and False are the numbers 1 and 0, as in Python    *)
(* (True == 1, False == 0).                                                *)
(***************************************************************************)
None == [t |-> "None"]
Num(n) == [t |-> "num", v |-> n]
Str(s) == [t |-> "str", v |-> s]
True == Num(1)
False == Num(0)
Raise(e) == [t |-> "raise", exc |-> e]

\* the two shapes configobj gives the recipients option: a list of strings
\* (a comma-separated value) or one string; a string is written as a
\* sequence of template parts, see format_map
List(items) == [t |-> "list", items |-> items]
Text(parts) == [t |-> "text", parts |-> parts]

IsRaise(x) == x.t = "raise"

\* truth value of a Python object, as tested by `if x` / `not x`
Truthy(x) ==
    /\ x # None
    /\ ~(x.t = "num" /\ x.v = 0)
    /\ ~(x.t = "str" /\ x.v = "")

(***************************************************************************)
(* Configuration: the parsed weewx.conf tree.                              *)
(***************************************************************************)
\* a section without any key
EmptySect == [k \in {} |-> ""]

\* weewx.units.unit_constants
unit_constants == {"US", "METRIC", "METRICWX"}

\* the spellings, in any mix of upper and lower case, that
\* weeutil.weeutil.to_bool reads as true and as false
TrueWords ==
    {"TRUE", "TRUe", "TRuE", "TRue", "TrUE", "TrUe", "TruE",
     "True", "tRUE", "tRUe", "tRuE", "tRue", "trUE", "trUe",
     "truE", "true", "YES", "YEs", "YeS", "Yes", "yES", "yEs",
     "yeS", "yes", "Y", "y"}
FalseWords ==
    {"FALSE", "FALSe", "FALsE", "FALse", "FAlSE", "FAlSe",
     "FAlsE", "FAlse", "FaLSE", "FaLSe", "FaLsE", "FaLse",
     "FalSE", "FalSe", "FalsE", "False", "fALSE", "fALSe",
     "fALsE", "fALse", "fAlSE", "fAlSe", "fAlsE", "fAlse",
     "faLSE", "faLSe", "faLsE", "faLse", "falSE", "falSe",
     "falsE", "false", "NO", "No", "nO", "no", "N", "n"}

\* the strings of the model that int() accepts, by their value being zero
\* or not
ZeroNumerals == {"0", "00", "-0", "+0", " 0 "}
NonZeroNumerals ==
    {"1", "2", "3", "4", "5", "6", "7", "8", "9", "10", "01", "-1", "+1",
     " 1 ", "42", "100"}

\* weeutil.weeutil.to_bool on configuration strings: x.lower() among the
\* words for true or false, else bool(int(x)), else ValueError
to_bool(x) ==
    CASE x \in TrueWords -> True
      [] x \in FalseWords -> False
      [] x \in NonZeroNumerals -> True
      [] x \in ZeroNumerals -> False
      [] OTHER -> Raise("ValueError")

\* str.lower on the notify_first values of the model
lower(s) ==
    CASE s \in {"set", "Set", "SET"} -> "set"
      [] s \in {"clear", "Clear", "CLEAR"} -> "clear"
      [] s \in {"clear,set", "Clear,Set", "CLEAR,SET"} -> "clear,set"
      [] s \in {"set,clear", "Set,Clear", "SET,CLEAR"} -> "set,clear"
      [] OTHER -> s

\* `sub in s` on strings (substring test), for the state names and the
\* notify_first values of the model
InString(sub, s) ==
    CASE s = "" -> FALSE
      [] s = "set" -> sub = "set"
      [] s = "clear" -> sub = "clear"
      [] s \in {"clear,set", "set,clear"} -> sub \in {"clear", "set"}
      [] OTHER -> FALSE

\* the defaults of the on_... sub-sections, taken from the [Alarms] group
on_defaults(mgr_sect) ==
    LET get(key, default) ==
            IF key \in DOMAIN mgr_sect THEN mgr_sect[key] ELSE default
    IN  [recipients |-> get("recipients", List(<< >>)),
         text_set |-> get("text_set", "SET"),
         text_clear |-> get("text_clear", "CLR"),
         notify_first |-> lower(get("notify_first", "")),
         subject_prefix |-> get("subject_prefix",
                                <<[lit |-> "Alarm ["], [var |-> "_STATE"],
                                  [lit |-> "] "]>>),
         subject |-> get("subject", <<[var |-> "_NAME"]>>),
         body_prefix |-> get("body_prefix",
                             <<[lit |-> "Alarm:"], [esc |-> "t"], [var |-> "_NAME"],
                               [esc |-> "n"], [lit |-> "State:"], [esc |-> "t"],
                               [var |-> "_STATE"], [esc |-> "n"],
                               [lit |-> "Test:"], [esc |-> "t"],
                               [var |-> "_RULE"], [esc |-> "n"],
                               [lit |-> "Time:"], [esc |-> "t"],
                               [var |-> "_TIME"], [esc |-> "n"]>>),
         body |-> get("body", << >>)]

\* parse_on_sect with an unparsable suppress_first taken as True
parse_on_sect_invalid_is_true(on_sect, defaults, on_state) ==
    LET keys == DOMAIN defaults \ {"notify_first"}
        merged == [key \in keys |->
                     IF key \in DOMAIN on_sect THEN on_sect[key]
                     ELSE defaults[key]]
        suppress_first ==
            IF "suppress_first" \in DOMAIN on_sect
            THEN LET b == to_bool(on_sect["suppress_first"])
                 IN  IF IsRaise(b) THEN TRUE ELSE Truthy(b)
            ELSE ~InString(on_state, defaults["notify_first"])
    IN  [key \in keys \cup {"suppress_first"} |->
            IF key = "suppress_first" THEN suppress_first ELSE merged[key]]

\* AlarmSvc.parse_on_sect: merge an on_set / on_clear sub-section onto the
\* defaults and resolve suppress_first
parse_on_sect(on_sect, defaults, on_state) ==
    LET keys == DOMAIN defaults \ {"notify_first"}
        merged == [key \in keys |->
                     IF key \in DOMAIN on_sect THEN on_sect[key]
                     ELSE defaults[key]]
        suppress_first ==
            IF "suppress_first" \in DOMAIN on_sect
            THEN LET b == to_bool(on_sect["suppress_first"])
                 IN  IF IsRaise(b) THEN FALSE ELSE Truthy(b)
            ELSE ~InString(on_state, defaults["notify_first"])
    IN  [key \in keys \cup {"suppress_first"} |->
            IF key = "suppress_first" THEN suppress_first ELSE merged[key]]

\* AlarmSvc.parse_alarm: an Alarm, None when the section is skipped, or the
\* exception it raises.  The warning for a section without rule formats
\* `alarm_name`, a name that parse_alarm does not define (its parameter is
\* `name`), so that branch raises NameError before it can return None.
parse_alarm(name, alarm_sect, defaults) ==
    LET rule == IF "rule" \in DOMAIN alarm_sect THEN alarm_sect["rule"] ELSE ""
        on_true_params ==
            IF "on_set" \in DOMAIN alarm_sect
            THEN parse_on_sect(alarm_sect["on_set"], defaults, "set")
            ELSE None
        on_false_params ==
            IF "on_clear" \in DOMAIN alarm_sect
            THEN parse_on_sect(alarm_sect["on_clear"], defaults, "clear")
            ELSE None
    IN  IF rule = ""
        THEN Raise("NameError")
        ELSE [t |-> "Alarm", name |-> name, rule |-> rule,
              on_true_params |-> on_true_params,
              on_false_params |-> on_false_params]

\* the alarm definitions loop of AlarmSvc.__init__: the list self.alarms,
\* and the exception a parse_alarm call raised ("" when none did)
RECURSIVE parse_alarms(_, _)
parse_alarms(sections, defaults) ==
    IF sections = << >> THEN [exc |-> "", alarms |-> << >>]
    ELSE LET alarm == parse_alarm(Head(sections)[1], Head(sections)[2],
                                  defaults)
             rest == parse_alarms(Tail(sections), defaults)
         IN  IF IsRaise(alarm) THEN [exc |-> alarm.exc, alarms |-> << >>]
             ELSE IF rest.exc # "" THEN rest
             ELSE IF alarm # None
                  THEN [exc |-> "", alarms |-> <<alarm>> \o rest.alarms]
                  ELSE rest

\* AlarmSvc.__init__: what construction leaves behind
\*   svc: "inert" (returned without binding), "bound" (bound to
\*        NEW_ARCHIVE_RECORD) or "raised" (an exception reached the host)
init_service(config_dict) ==
    IF "Alarms" \notin DOMAIN config_dict
    THEN [svc |-> "inert", exc |-> "", alarms |-> << >>, stop |-> "noattr"]
    ELSE
    LET mgr_sect == config_dict["Alarms"]
        key == IF "unit_system" \in DOMAIN mgr_sect
               THEN mgr_sect["unit_system"] ELSE "METRIC"
        parsed == parse_alarms(mgr_sect["sections"], on_defaults(mgr_sect))
    IN  IF key \notin unit_constants
        THEN [svc |-> "inert", exc |-> "", alarms |-> << >>,
              stop |-> "noattr"]
        ELSE IF parsed.exc # ""
        THEN [svc |-> "raised", exc |-> parsed.exc, alarms |-> << >>,
              stop |-> "noattr"]
        ELSE IF parsed.alarms = << >>
        THEN [svc |-> "inert", exc |-> "", alarms |-> << >>,
              stop |-> "noattr"]
        ELSE [svc |-> "bound", exc |-> "", alarms |-> parsed.alarms,
              stop |-> "clear"]

(***************************************************************************)
(* Rule evaluation and template rendering.                                 *)
(***************************************************************************)
\* n & 0x02 on the integers: bit 1 of n
BitAnd2(n) == ((n \div 2) % 2) * 2

\* n & 0x06 on the integers: bits 1 and 2 of n
BitAnd6(n) == ((n \div 2) % 4) * 2

\* eval(rule, {}, context) for the rules of the model: the value of the
\* expression, or the exception it raises
eval(rule, context) ==
    CASE rule = "outTemp >= 30.0" ->
            IF "outTemp" \notin DOMAIN context THEN Raise("NameError")
            ELSE IF context["outTemp"].t # "num" THEN Raise("TypeError")
            ELSE IF context["outTemp"].v >= 30 THEN True ELSE False
      [] rule = "int(txBatteryStatus) & 0x02" ->
            IF "txBatteryStatus" \notin DOMAIN context THEN Raise("NameError")
            ELSE IF context["txBatteryStatus"].t # "num"
                 THEN Raise("TypeError")
            ELSE Num(BitAnd2(context["txBatteryStatus"].v))
      [] rule = "int(txBatteryStatus) & 0x06" ->
            IF "txBatteryStatus" \notin DOMAIN context THEN Raise("NameError")
            ELSE IF context["txBatteryStatus"].t # "num"
                 THEN Raise("TypeError")
            ELSE Num(BitAnd6(context["txBatteryStatus"].v))
      [] OTHER -> Raise("SyntaxError")

\* eval_rule with an evaluation error read as "evaluated to false"
eval_rule_error_is_false(alarm, context) ==
    LET new_state == eval(alarm.rule, context)
    IN  IF IsRaise(new_state) THEN False ELSE new_state

\* Alarm.eval_rule: the new state, or None if the evaluation raised
eval_rule(alarm, context) ==
    LET new_state == eval(alarm.rule, context)
    IN  IF IsRaise(new_state) THEN None ELSE new_state

\* n written with at least two digits, as strftime writes %m %d %H %M %S
TwoDigits(n) == IF n < 10 THEN "0" \o ToString(n) ELSE ToString(n)

\* n written with at least four digits, as strftime writes %Y
FourDigits(n) ==
    IF n < 10 THEN "000" \o ToString(n)
    ELSE IF n < 100 THEN "00" \o ToString(n)
    ELSE IF n < 1000 THEN "0" \o ToString(n)
    ELSE ToString(n)

\* the calendar date (proleptic Gregorian) of the day `days` days after
\* 1970-01-01, days >= 0, as time.localtime computes it
civil_from_days(days) ==
    LET z == days + 719468
        era == z \div 146097
        doe == z - era * 146097
        yoe == (doe - doe \div 1460 + doe \div 36524 - doe \div 146096)
               \div 365
        doy == doe - (365 * yoe + yoe \div 4 - yoe \div 100)
        mp == (5 * doy + 2) \div 153
        d == doy - (153 * mp + 2) \div 5 + 1
        m == IF mp < 10 THEN mp + 3 ELSE mp - 9
        y == yoe + era * 400 + (IF m <= 2 THEN 1 ELSE 0)
    IN  [year |-> y, month |-> m, day |-> d]

\* Alarm.epoch_to_string: the first 19 characters of
\* weeutil.weeutil.timestamp_to_string(epoch), "%Y-%m-%d %H:%M:%S" of the
\* local time (UTC in the model) for a timestamp from 1970 on, and the
\* 19 characters of its "N/A" text for None
epoch_to_string(epoch) ==
    IF epoch = None THEN "******* N/A *******"
    ELSE LET date == civil_from_days(epoch.v \div 86400)
             secs == epoch.v % 86400
         IN  FourDigits(date.year) \o "-" \o TwoDigits(date.month) \o "-"
             \o TwoDigits(date.day) \o " " \o TwoDigits(secs \div 3600)
             \o ":" \o TwoDigits((secs % 3600) \div 60) \o ":"
             \o TwoDigits(secs % 60)

\* the evaluation context Alarm.assess builds: the packet's fields, then the
\* special variables, which win over a packet field of the same name
assess_context(alarm, packet_cvt) ==
    LET special == [_NAME |-> Str(alarm.name), _RULE |-> Str(alarm.rule),
                    _TIME |-> Str(epoch_to_string(packet_cvt["dateTime"]))]
    IN  [k \in DOMAIN packet_cvt \cup DOMAIN special |->
            IF k \in DOMAIN special THEN special[k] ELSE packet_cvt[k]]

\* str(x) as format_map substitutes it
str(x) ==
    CASE x.t = "str" -> x.v
      [] x.t = "num" -> ToString(x.v)
      [] OTHER -> "None"

\* the recipients joined with a comma and a blank
RECURSIVE join_comma_blank(_)
join_comma_blank(list) ==
    IF list = << >> THEN << >>
    ELSE IF Len(list) = 1 THEN Head(list)
    ELSE Head(list) \o <<[lit |-> ", "]>> \o join_comma_blank(Tail(list))

\* ','.join(list) on strings written as sequences of template parts
RECURSIVE join(_)
join(list) ==
    IF list = << >> THEN << >>
    ELSE IF Len(list) = 1 THEN Head(list)
    ELSE Head(list) \o <<[lit |-> ","]>> \o join(Tail(list))

\* Text is written as a sequence of parts: [lit |-> s] plain characters,
\* [var |-> name] a {name} placeholder, [esc |-> c] a backslash followed by
\* the character c, [quote |-> TRUE] an apostrophe.

\* raw.format_map(context): the text with every placeholder substituted,
\* or KeyError for a placeholder the context lacks
RECURSIVE format_map(_, _)
format_map(raw, context) ==
    IF raw = << >> THEN [exc |-> "", parts |-> << >>]
    ELSE LET part == Head(raw)
             rest == format_map(Tail(raw), context)
         IN  IF "var" \in DOMAIN part /\ part.var \notin DOMAIN context
             THEN [exc |-> "KeyError", parts |-> << >>]
             ELSE IF rest.exc # "" THEN rest
             ELSE IF "var" \in DOMAIN part
                  THEN [exc |-> "",
                        parts |-> <<[lit |-> str(context[part.var])]>>
                                  \o rest.parts]
                  ELSE [exc |-> "", parts |-> <<part>> \o rest.parts]

\* the characters of a text as it is written: a placeholder in its
\* braces, an escape as backslash and character, an apostrophe
RECURSIVE text(_)
text(parts) ==
    IF parts = << >> THEN ""
    ELSE LET part == Head(parts)
         IN  (CASE "lit" \in DOMAIN part -> part.lit
                [] "var" \in DOMAIN part -> "{" \o part.var \o "}"
                [] "esc" \in DOMAIN part -> "\\" \o part.esc
                [] OTHER -> "'") \o text(Tail(parts))

\* ast.literal_eval("'" + cooked + "'"): the text with its backslash
\* escapes decoded (an unknown escape such as \q stays as written), or
\* SyntaxError when an apostrophe ends the literal early or a \x escape is
\* truncated
RECURSIVE literal_eval(_)
literal_eval(parts) ==
    IF parts = << >> THEN Str("")
    ELSE LET part == Head(parts)
             rest == literal_eval(Tail(parts))
             char == CASE "lit" \in DOMAIN part -> part.lit
                       [] "esc" \in DOMAIN part /\ part.esc = "t" -> "\t"
                       [] "esc" \in DOMAIN part /\ part.esc = "n" -> "\n"
                       [] "esc" \in DOMAIN part -> "\\" \o part.esc
                       [] OTHER -> "'"
         IN  IF "quote" \in DOMAIN part
                \/ ("esc" \in DOMAIN part /\ part.esc = "x")
             THEN Raise("SyntaxError")
             ELSE IF IsRaise(rest) THEN rest
             ELSE Str(char \o rest.v)

\* Alarm.eval_string: None if the substitution raised; the substituted text
\* still undecoded if literal_eval raised, since `cooked` was already
\* assigned; else the decoded text
eval_string(raw, context) ==
    LET substituted == format_map(raw, context)
    IN  IF substituted.exc # "" THEN None
        ELSE LET cooked == literal_eval(substituted.parts)
             IN  IF IsRaise(cooked) THEN Str(text(substituted.parts))
                 ELSE cooked

(***************************************************************************)
(* Mailer.                                                                 *)
(***************************************************************************)
\* what the relay does to one Mailer.send: the delivery outcomes
\*   "sent"                  connect, sendmail and quit all succeed
\*   "connect_oserror"       smtplib.SMTP(server) raises OSError (connection
\*                           refused, host unknown, timeout): no socket
\*   "connect_smtperror"     the relay's greeting is not 220: smtplib closes
\*                           the socket and raises SMTPConnectError
\*   "sendmail_refused"      sendmail raises SMTPRecipientsRefused
\*   "sendmail_disconnected" the relay drops the connection during
\*                           sendmail: smtplib closes the socket and raises
\*                           SMTPServerDisconnected, and so does quit on
\*                           the closed connection
\*   "quit_disconnected"     sendmail succeeds, the relay drops the
\*                           connection during quit: smtplib closes the
\*                           socket and raises SMTPServerDisconnected
SendOutcomes ==
    {"sent", "connect_oserror", "connect_smtperror", "sendmail_refused",
     "sendmail_disconnected", "quit_disconnected"}

\* the exceptions of the model that derive from smtplib.SMTPException
SMTPException ==
    {"SMTPConnectError", "SMTPRecipientsRefused", "SMTPServerDisconnected"}

\* Mailer.send with smtp.quit() at the end of the try block instead of in
\* a finally clause
Mailer_send_quit_in_try(outcome) ==
    LET connect_exc == CASE outcome = "connect_oserror" -> "OSError"
                         [] outcome = "connect_smtperror" -> "SMTPConnectError"
                         [] OTHER -> ""
        smtp == connect_exc = ""
        opened == outcome # "connect_oserror"
        sendmail_exc ==
            CASE ~smtp -> ""
              [] outcome = "sendmail_refused" -> "SMTPRecipientsRefused"
              [] outcome = "sendmail_disconnected" -> "SMTPServerDisconnected"
              [] OTHER -> ""
        quit_called == smtp /\ sendmail_exc = ""
        quit_exc == IF quit_called /\ outcome = "quit_disconnected"
                    THEN "SMTPServerDisconnected" ELSE ""
        try_exc == IF connect_exc # "" THEN connect_exc
                   ELSE IF sendmail_exc # "" THEN sendmail_exc ELSE quit_exc
        open_after == /\ smtp
                      /\ sendmail_exc # "SMTPServerDisconnected"
                      /\ ~quit_called
    IN  [delivered |-> smtp /\ sendmail_exc = "",
         opened |-> opened,
         closed |-> opened /\ ~open_after,
         exc |-> IF try_exc \in SMTPException THEN "" ELSE try_exc]

\* Mailer.send under a delivery outcome: whether the message was accepted
\* by the relay, whether a connection was opened and whether it is closed
\* when send is left, and the exception send lets escape ("" when it
\* returns normally)
Mailer_send(outcome) ==
    LET \* smtp = smtplib.SMTP(self.server); `smtp` is bound only if the
        \* constructor returns
        connect_exc == CASE outcome = "connect_oserror" -> "OSError"
                         [] outcome = "connect_smtperror" -> "SMTPConnectError"
                         [] OTHER -> ""
        smtp == connect_exc = ""
        opened == outcome # "connect_oserror"
        \* smtp.sendmail(...)
        sendmail_exc ==
            CASE ~smtp -> ""
              [] outcome = "sendmail_refused" -> "SMTPRecipientsRefused"
              [] outcome = "sendmail_disconnected" -> "SMTPServerDisconnected"
              [] OTHER -> ""
        try_exc == IF connect_exc # "" THEN connect_exc ELSE sendmail_exc
        \* except smtplib.SMTPException: log; anything else goes on
        uncaught == IF try_exc \in SMTPException THEN "" ELSE try_exc
        \* finally: if smtp: smtp.quit(); quit closes the socket also when
        \* it raises, and an exception of quit replaces the pending one
        quit_called == smtp
        quit_exc == IF quit_called /\ outcome \in {"sendmail_disconnected",
                                                    "quit_disconnected"}
                    THEN "SMTPServerDisconnected" ELSE ""
        open_after == /\ smtp
                      /\ sendmail_exc # "SMTPServerDisconnected"
                      /\ ~quit_called
    IN  [delivered |-> smtp /\ sendmail_exc = "",
         opened |-> opened,
         closed |-> opened /\ ~open_after,
         exc |-> IF quit_exc # "" THEN quit_exc ELSE uncaught]

(***************************************************************************)
(* Alarm.assess, after the rule has been evaluated.                        *)
(***************************************************************************)
NoMail == [To |-> "", Subject |-> "", Body |-> "", _STATE |-> ""]

\* the trigger parameters Alarm.assess selects for a new state
ParamsFor(alarm, new_state) ==
    IF Truthy(new_state) THEN alarm.on_true_params ELSE alarm.on_false_params

\* the recipients as Alarm.assess hands them to eval_string: a list is
\* joined with commas, a string is taken as it is
raw_recipients(params) ==
    IF params["recipients"].t = "list"
    THEN join(params["recipients"].items)
    ELSE params["recipients"].parts

\* the value Alarm.assess gives the special variable _STATE
state_text(params, new_state) ==
    IF Truthy(new_state) THEN params["text_set"] ELSE params["text_clear"]

\* the context of the subject and the body: the evaluation context with
\* _STATE added
notification_context(alarm, packet_cvt, params, new_state) ==
    LET base == assess_context(alarm, packet_cvt)
    IN  [k \in DOMAIN base \cup {"_STATE"} |->
            IF k = "_STATE" THEN Str(state_text(params, new_state))
            ELSE base[k]]

\* the part of Alarm.assess that follows `self.state = new_state`: the
\* envelope handed to Mailer.send, or NoMail when assess returns without
\* sending (no trigger defined, first state suppressed, no recipients)
notification(alarm, packet_cvt, new_state, old_state) ==
    LET params == ParamsFor(alarm, new_state)
    IN  IF params = None THEN NoMail
        ELSE IF old_state = None /\ params["suppress_first"] THEN NoMail
        ELSE
        LET _STATE == state_text(params, new_state)
            context == notification_context(alarm, packet_cvt, params,
                                            new_state)
            recipients == eval_string(raw_recipients(params), EmptySect)
            raw_subject == params["subject_prefix"] \o params["subject"]
            subject == eval_string(raw_subject, context)
            raw_body == params["body_prefix"] \o params["body"]
            body == eval_string(raw_body, context)
        IN  IF ~Truthy(recipients) THEN NoMail
            ELSE [To |-> recipients.v,
                  Subject |-> IF subject = None
                              THEN alarm.name \o " [" \o _STATE
                                   \o "] *garbled* raw='"
                                   \o text(raw_subject) \o "'"
                              ELSE subject.v,
                  Body |-> (IF body = None
                            THEN "*garbled* raw='" \o text(raw_body) \o "'"
                            ELSE body.v) \o "\n",
                  _STATE |-> _STATE]

(***************************************************************************)
(* The inputs of the model: configurations and ARCHIVE records.            *)
(***************************************************************************)
Addr(s) == <<[lit |-> s]>>

\* the alarm sections [[Hot]] and [[River Temp Battery LOW]] of the example
\* configuration in the AlarmSvc docstring, as written there
SectHot ==
    <<"Hot", [rule |-> "outTemp >= 30.0",
              on_set |-> [body |-> <<[lit |-> "outTemp:"], [esc |-> "t"],
                                     [var |-> "outTemp"], [esc |-> "n"]>>]]>>
SectBattery ==
    <<"River Temp Battery LOW",
      [rule |-> "int(txBatteryStatus) & 0x02",
       on_set |-> [recipients |->
                       List(<<Addr("Your Name <your_account@your_isp.com>"),
                              Addr("Batteries <hardware@shop.com")>>),
                   subject_prefix |-> <<[lit |-> "Order: "]>>,
                   body_prefix |-> <<[lit |-> "Please provide 4xAAA batteries"],
                                     [esc |-> "n"]>>],
       on_clear |-> [subject |-> <<[lit |-> "River Temp Battery okay"]>>]]>>

\* a section of the same kind whose rule tests two bits of the status, so
\* that its true results differ (2, 4, 6); on_clear with a suppress_first
\* that is no boolean and with an empty list of recipients
SectBatteryBits ==
    <<"Battery Bits", [rule |-> "int(txBatteryStatus) & 0x06",
                       on_set |-> [recipients |->
                                       List(<<Addr("hardware@shop.com")>>)],
                       on_clear |-> [suppress_first |-> "maybe",
                                     recipients |-> List(<< >>)]]>>
SectNoRule ==
    <<"No Rule", [on_set |-> EmptySect]>>

\* a subject that names a field no record has, an own text_set, and one
\* recipient given as a single string; on_clear with a body that names a
\* field no record has and an apostrophe in the subject
SectGarbled ==
    <<"Garbled", [rule |-> "outTemp >= 30.0",
                  on_set |-> [suppress_first |-> "false",
                              recipients |-> Text(Addr("ops@x.com")),
                              text_set |-> "ON",
                              subject |-> <<[lit |-> "wind "],
                                            [var |-> "windSpeed"]>>],
                  on_clear |-> [suppress_first |-> "false",
                                subject |-> <<[lit |-> "it"], [quote |-> TRUE],
                                              [lit |-> "s over"]>>,
                                body |-> <<[lit |-> "rain:"], [esc |-> "t"],
                                           [var |-> "rain"]>>]]>>
\* recipients with an apostrophe in the display name; on_clear with a
\* recipient that names a record field
SectQuoted ==
    <<"Quoted", [rule |-> "outTemp >= 30.0",
                 on_set |-> [suppress_first |-> "false",
                             recipients |->
                                 Text(<<[lit |-> "Pat O"], [quote |-> TRUE],
                                        [lit |-> "Brien <pob@x.com>"]>>)],
                 on_clear |-> [suppress_first |-> "false",
                               recipients |->
                                   List(<<Addr("a@x.com"),
                                          <<[lit |-> "t"],
                                            [var |-> "outTemp"],
                                            [lit |-> "@y.com"]>>>>)]]>>

\* the alarm sections of the model, in the order of the configuration file
AlarmSects ==
    <<SectHot, SectBattery, SectBatteryBits, SectGarbled, SectQuoted,
      SectNoRule>>

\* the sections numbered in S, in the order of the configuration file
RECURSIVE Sections(_)
Sections(S) ==
    IF S = {} THEN << >>
    ELSE LET first == CHOOSE x \in S : \A y \in S : x <= y
         IN  <<AlarmSects[first]>> \o Sections(S \ {first})

\* configurations of at most n of the alarm sections
SectLists(n) ==
    {Sections(S) : S \in {T \in SUBSET DOMAIN AlarmSects : Cardinality(T) <= n}}

\* the [Alarms] groups of the model: with notify_first = Set every list of
\* sections, with the default notify_first the lists one section shorter
MgrSects ==
    {[recipients |-> List(<<Addr("a@x.com"), Addr("b@y.com")>>),
      notify_first |-> "Set", sections |-> l] : l \in SectLists(MaxAlarms)}
    \cup {[recipients |-> List(<<Addr("a@x.com"), Addr("b@y.com")>>),
           notify_first |-> "", sections |-> l] :
              l \in SectLists(MaxAlarms - 1)}
    \cup {[unit_system |-> "IMPERIAL", sections |-> <<SectHot>>],
          [notify_first |-> "Clear,Set", sections |-> <<SectHot, SectBattery>>]}

Configs == {EmptySect} \cup {[Alarms |-> m] : m \in MgrSects}

\* ARCHIVE records: a hot one, a hotter one, a cool one, and one whose
\* outTemp is None and that lacks txBatteryStatus
Packets ==
    {[dateTime |-> Num(1000), outTemp |-> Num(32), txBatteryStatus |-> Num(2)],
     [dateTime |-> Num(1000), outTemp |-> Num(33), txBatteryStatus |-> Num(6)],
     [dateTime |-> Num(1000), outTemp |-> Num(10), txBatteryStatus |-> Num(0)],
     [dateTime |-> Num(1000), outTemp |-> None]}

\* weewx.units.to_std_system: the host delivers the records of the model in
\* the configured unit system, and such a record is returned as it is
to_std_system(packet, unit_system) == packet

(***************************************************************************)
(* The service as a state machine.                                         *)
(***************************************************************************)
Tasks == 1..MaxRecords

\* a thread that does not exist (yet)
IdleTask ==
    [pc |-> "idle", packet |-> EmptySect, i |-> 0, new_state |-> None,
     old_state |-> None, mail |-> NoMail]

\* threads that are running assess_all_alarms
InFlight == {t \in Tasks : tasks[t].pc \in {"loop", "cmp", "set", "send"}}

\* task t is inside Alarm.assess of alarm a
InAssess(t, a) == tasks[t].pc \in {"cmp", "set", "send"} /\ tasks[t].i = a

\* self.unit_system
unit_system ==
    IF "unit_system" \in DOMAIN cfg["Alarms"]
    THEN cfg["Alarms"]["unit_system"] ELSE "METRIC"

Init ==
    /\ cfg \in Configs
    /\ svc = "new"
    /\ alarms = << >>
    /\ state = << >>
    /\ stop = "noattr"
    /\ tasks = [t \in Tasks |-> IdleTask]
    /\ ntasks = 0
    /\ mails = {}
    /\ hostexc = {}

\* the engine loads the service: AlarmSvc.__init__ and every Alarm.__init__
Construct ==
    /\ svc = "new"
    /\ LET r == init_service(cfg)
       IN  /\ svc' = r.svc
           /\ alarms' = r.alarms
           /\ state' = [a \in DOMAIN r.alarms |-> None]
           /\ stop' = r.stop
           /\ hostexc' = IF r.exc = "" THEN hostexc
                         ELSE hostexc \cup {[in |-> "__init__", exc |-> r.exc]}
    /\ UNCHANGED <<cfg, tasks, ntasks, mails>>

\* new_archive_record without its except clause: the error of a thread
\* that cannot be started reaches the engine
NewArchiveRecord_raises(packet) ==
    /\ svc = "bound"
    /\ ntasks < MaxRecords
    /\ ntasks' = ntasks + 1
    /\ IF stop = "set"
       THEN /\ tasks' = [tasks EXCEPT ![ntasks + 1] =
                            [IdleTask EXCEPT !.pc = "skipped"]]
            /\ hostexc' = hostexc
       ELSE \/ /\ tasks' = [tasks EXCEPT ![ntasks + 1] =
                               [IdleTask EXCEPT !.pc = "loop",
                                                !.packet = packet, !.i = 1]]
               /\ hostexc' = hostexc
            \/ /\ tasks' = [tasks EXCEPT ![ntasks + 1] =
                               [IdleTask EXCEPT !.pc = "nothread"]]
               /\ hostexc' = hostexc \cup {[in |-> "new_archive_record",
                                             exc |-> "ThreadError"]}
    /\ UNCHANGED <<cfg, svc, alarms, state, stop, mails>>

\* AlarmSvc.new_archive_record, called by the engine for a bound service:
\* skipped when stop is set, else a thread is started on the record, unless
\* starting it raises ThreadError
NewArchiveRecord(packet) ==
    /\ svc = "bound"
    /\ ntasks < MaxRecords
    /\ ntasks' = ntasks + 1
    /\ IF stop = "set"
       THEN tasks' = [tasks EXCEPT ![ntasks + 1] =
                         [IdleTask EXCEPT !.pc = "skipped"]]
       ELSE \/ tasks' = [tasks EXCEPT ![ntasks + 1] =
                            [IdleTask EXCEPT !.pc = "loop", !.packet = packet,
                                             !.i = 1]]
            \/ tasks' = [tasks EXCEPT ![ntasks + 1] =
                            [IdleTask EXCEPT !.pc = "nothread"]]
    /\ UNCHANGED <<cfg, svc, alarms, state, stop, mails, hostexc>>

\* a loop of assess_all_alarms that does not advance: after an assessment
\* the same alarm is taken again
Return_repeats(t) ==
    [tasks EXCEPT ![t] = [IdleTask EXCEPT !.pc = "loop",
                                          !.packet = tasks[t].packet,
                                          !.i = tasks[t].i]]

\* Alarm.assess returns to the loop of assess_all_alarms, which moves on to
\* the next alarm or ends with the list
Return(t) ==
    IF tasks[t].i < Len(alarms)
    THEN [tasks EXCEPT ![t] = [IdleTask EXCEPT !.pc = "loop",
                                               !.packet = tasks[t].packet,
                                               !.i = tasks[t].i + 1]]
    ELSE [tasks EXCEPT ![t] = [IdleTask EXCEPT !.pc = "done"]]

\* the loop of assess_all_alarms without its test of the stop signal
LoopStep_ignores_stop(t) ==
    /\ tasks[t].pc = "loop"
    /\ LET alarm == alarms[tasks[t].i]
           packet_cvt == to_std_system(tasks[t].packet, unit_system)
           new_state == eval_rule(alarm, assess_context(alarm, packet_cvt))
       IN  IF new_state = None
           THEN tasks' = Return(t)
           ELSE tasks' = [tasks EXCEPT ![t].pc = "cmp",
                                       ![t].new_state = new_state]
    /\ UNCHANGED <<cfg, svc, alarms, state, stop, ntasks, mails, hostexc>>

\* one turn of the loop in assess_all_alarms: break when stop is set, else
\* enter Alarm.assess, which evaluates the rule
LoopStep(t) ==
    /\ tasks[t].pc = "loop"
    /\ IF stop = "set"
       THEN tasks' = [tasks EXCEPT ![t] =
                         [IdleTask EXCEPT !.pc = "done"]]
       ELSE LET alarm == alarms[tasks[t].i]
                packet_cvt == to_std_system(tasks[t].packet, unit_system)
                new_state == eval_rule(alarm, assess_context(alarm, packet_cvt))
            IN  IF new_state = None
                THEN tasks' = Return(t)
                ELSE tasks' = [tasks EXCEPT ![t].pc = "cmp",
                                            ![t].new_state = new_state]
    /\ UNCHANGED <<cfg, svc, alarms, state, stop, ntasks, mails, hostexc>>

\* Alarm.assess: old_state = self.state; return if new_state == old_state
Compare(t) ==
    /\ tasks[t].pc = "cmp"
    /\ LET old_state == state[tasks[t].i]
       IN  IF tasks[t].new_state = old_state
           THEN tasks' = Return(t)
           ELSE tasks' = [tasks EXCEPT ![t].pc = "set",
                                       ![t].old_state = old_state]
    /\ UNCHANGED <<cfg, svc, alarms, state, stop, ntasks, mails, hostexc>>

\* Alarm.assess with the test for a missing trigger ahead of the write of
\* the state: without a transition config the new state is not recorded
SetState_needs_params(t) ==
    /\ tasks[t].pc = "set"
    /\ LET alarm == alarms[tasks[t].i]
           packet_cvt == to_std_system(tasks[t].packet, unit_system)
           mail == notification(alarm, packet_cvt, tasks[t].new_state,
                                tasks[t].old_state)
       IN  /\ state' = IF ParamsFor(alarm, tasks[t].new_state) = None
                       THEN state
                       ELSE [state EXCEPT ![tasks[t].i] = tasks[t].new_state]
           /\ IF mail = NoMail
              THEN tasks' = Return(t)
              ELSE tasks' = [tasks EXCEPT ![t].pc = "send", ![t].mail = mail]
    /\ UNCHANGED <<cfg, svc, alarms, stop, ntasks, mails, hostexc>>

\* Alarm.assess: self.state = new_state, then the trigger parameters, the
\* suppression of a first state and the rendering of the notification
SetState(t) ==
    /\ tasks[t].pc = "set"
    /\ state' = [state EXCEPT ![tasks[t].i] = tasks[t].new_state]
    /\ LET alarm == alarms[tasks[t].i]
           packet_cvt == to_std_system(tasks[t].packet, unit_system)
           mail == notification(alarm, packet_cvt, tasks[t].new_state,
                                tasks[t].old_state)
       IN  IF mail = NoMail
           THEN tasks' = Return(t)
           ELSE tasks' = [tasks EXCEPT ![t].pc = "send", ![t].mail = mail]
    /\ UNCHANGED <<cfg, svc, alarms, stop, ntasks, mails, hostexc>>

\* Alarm.assess: self.mailer.send(recipients, subject, body).  An exception
\* that escapes Mailer.send escapes assess and assess_all_alarms too and
\* ends the thread.
Send(t, outcome) ==
    /\ tasks[t].pc = "send"
    /\ LET r == Mailer_send(outcome)
       IN  /\ mails' = mails \cup
                {[task |-> t, alarm |-> tasks[t].i, mail |-> tasks[t].mail,
                  old_state |-> tasks[t].old_state,
                  new_state |-> tasks[t].new_state,
                  delivered |-> r.delivered, opened |-> r.opened,
                  closed |-> r.closed, exc |-> r.exc]}
           /\ IF r.exc = ""
              THEN tasks' = Return(t)
              ELSE tasks' = [tasks EXCEPT ![t] =
                                [IdleTask EXCEPT !.pc = "crashed"]]
    /\ UNCHANGED <<cfg, svc, alarms, state, stop, ntasks, hostexc>>

\* AlarmSvc.shutDown, called once by the engine on a service it constructed:
\* self.stop.set(), an AttributeError when __init__ returned before it
\* created self.stop
ShutDown ==
    /\ svc \in {"bound", "inert"}
    /\ stop # "set"
    /\ [in |-> "shutDown", exc |-> "AttributeError"] \notin hostexc
    /\ IF stop = "noattr"
       THEN /\ hostexc' = hostexc \cup
                    {[in |-> "shutDown", exc |-> "AttributeError"]}
            /\ stop' = stop
       ELSE /\ stop' = "set"
            /\ hostexc' = hostexc
    /\ UNCHANGED <<cfg, svc, alarms, state, tasks, ntasks, mails>>

\* the next step of thread t in assess_all_alarms
assess_all_alarms(t) ==
    \/ LoopStep(t)
    \/ Compare(t)
    \/ SetState(t)
    \/ \E outcome \in SendOutcomes : Send(t, outcome)

TaskStep ==
    \E t \in Tasks : assess_all_alarms(t)

\* records may arrive while earlier threads are still running
Next ==
    \/ Construct
    \/ \E packet \in Packets :
          NewArchiveRecord(packet)
    \/ TaskStep
    \/ ShutDown

Spec == Init /\ [][Next]_vars

\* a started thread is scheduled again and again (threading.Thread.start):
\* the test of the stop signal with the evaluation of the rule, the
\* comparison and the write of the state are steps of the thread alone and
\* are taken.  This is weak fairness of these steps; for the turn of the
\* loop and for the write of the state, which are possible whenever the
\* thread stands before them, the condition is written out.  Nothing is
\* assumed of Mailer.send: smtplib.SMTP is opened without a timeout, and a
\* thread may stay in the delivery for ever.
FairSpec ==
    /\ Spec
    /\ \A t \in Tasks :
          /\ []<>(tasks[t].pc # "loop") \/ []<><<LoopStep(t)>>_vars
          /\ WF_vars(Compare(t))
          /\ []<>(tasks[t].pc # "set") \/ []<><<SetState(t)>>_vars

(***************************************************************************)
(* The claims.                                                             *)
(***************************************************************************)
\* the alarm task t is assessing and the record it assesses it against
AlarmOf(t) == alarms[tasks[t].i]
PacketOf(t) == to_std_system(tasks[t].packet, unit_system)

\* the spec's tri-state reading of Alarm.state
AlarmState(v) ==
    IF v = None THEN "Unknown" ELSE IF Truthy(v) THEN "Set" ELSE "Clear"

\* C1: Alarm.assess sends an email for a record only if the truth value of
\* the rule's result differs from the state it found recorded (the first
\* observation, from Unknown, set aside)
C1_MailOnlyOnChange ==
    \A t \in Tasks :
        (tasks[t].pc = "send" /\ tasks[t].old_state # None)
            => Truthy(tasks[t].new_state) # Truthy(tasks[t].old_state)

\* C2: an alarm's state starts Unknown, is changed only by an assessment of
\* that alarm and only along Unknown->Clear, Unknown->Set, Clear->Set or
\* Set->Clear, and never becomes Unknown again
C2_StateTransitions ==
    [][/\ svc = "new" => \A a \in DOMAIN state' : state'[a] = None
       /\ \A a \in DOMAIN state :
             state'[a] # state[a] =>
                /\ \E t \in Tasks : InAssess(t, a) /\ tasks'[t] # tasks[t]
                /\ <<AlarmState(state[a]), AlarmState(state'[a])>> \in
                      {<<"Unknown", "Clear">>, <<"Unknown", "Set">>,
                       <<"Clear", "Set">>, <<"Set", "Clear">>}]_vars

\* C3: assessing an alarm with a record whose rule result has the truth
\* value of the recorded state changes nothing: the assessment ends at the
\* comparison, without a write of the state and without a notification
C3_Idempotent ==
    [][\A t \in Tasks :
          (/\ tasks[t].pc = "cmp"
           /\ tasks'[t] # tasks[t]
           /\ state[tasks[t].i] # None
           /\ Truthy(tasks[t].new_state) = Truthy(state[tasks[t].i]))
          => /\ tasks'[t].pc \notin {"set", "send"}
             /\ state' = state
             /\ mails' = mails]_vars

\* C4: a notification under a transition config with suppress_first comes
\* from a change of the truth value only: never from the first observation,
\* never from a record that repeats the recorded truth value
C4_SuppressFirst ==
    \A t \in Tasks :
        (/\ tasks[t].pc = "send"
         /\ ParamsFor(AlarmOf(t), tasks[t].new_state)["suppress_first"])
        => /\ tasks[t].old_state # None
           /\ Truthy(tasks[t].new_state) # Truthy(tasks[t].old_state)

\* the rule of the alarm task t is about to assess raises on its record
RuleFails(t) ==
    /\ tasks[t].pc = "loop"
    /\ IsRaise(eval(AlarmOf(t).rule, assess_context(AlarmOf(t), PacketOf(t))))

\* C5: when the rule raises on the record, the assessment changes no
\* alarm's state, sends nothing, raises nothing, and the thread goes on to
\* the next alarm (or ends with the list): the failure is not a "false"
C5_EvalErrorIsolation ==
    [][\A t \in Tasks :
          (RuleFails(t) /\ tasks'[t] # tasks[t])
          => /\ state' = state
             /\ mails' = mails
             /\ hostexc' = hostexc
             /\ \/ tasks'[t].pc = "done"
                \/ tasks'[t].pc = "loop" /\ tasks'[t].i = tasks[t].i + 1]_vars

\* C5 witness: a thread is past an alarm whose rule raised on its record,
\* and the alarm still has the state an earlier record gave it
C5_Witness ==
    \E t \in Tasks :
        /\ tasks[t].pc = "loop"
        /\ tasks[t].i = 2
        /\ IsRaise(eval(alarms[1].rule, assess_context(alarms[1], PacketOf(t))))
        /\ state[1] # None

\* C6: no two threads are inside Alarm.assess of the same alarm at once
C6_MutualExclusion ==
    \A a \in DOMAIN alarms :
        \A t1, t2 \in Tasks :
            (InAssess(t1, a) /\ InAssess(t2, a)) => t1 = t2

\* C7: the notifications of an alarm are those of a one-at-a-time
\* assessment of the records: in particular its first state, observed from
\* Unknown, is notified by one thread at most
C7_OneNotificationPerTransition ==
    \A m1, m2 \in mails :
        (/\ m1.alarm = m2.alarm
         /\ m1.old_state = None
         /\ m2.old_state = None)
        => m1.task = m2.task

\* the alarm sections of the configuration that have a rule
UsableSections ==
    IF "Alarms" \notin DOMAIN cfg THEN << >>
    ELSE SelectSeq(cfg["Alarms"]["sections"],
                   LAMBDA x : "rule" \in DOMAIN x[2] /\ x[2]["rule"] # "")

\* C8: construction never raises; the service is inert when the Alarms
\* group is absent, the unit system unsupported or no section is usable,
\* and bound otherwise
C8_StartupValidation ==
    svc # "new" =>
        /\ svc # "raised"
        /\ hostexc = {}
        /\ IF \/ "Alarms" \notin DOMAIN cfg
              \/ unit_system \notin unit_constants
              \/ UsableSections = << >>
           THEN svc = "inert"
           ELSE svc = "bound" /\ Len(alarms) = Len(UsableSections)

\* C9: Mailer.send returns normally to Alarm.assess whatever the delivery
\* outcome: no thread is ended by an exception out of send
C9_SendBestEffort ==
    /\ \A t \in Tasks : tasks[t].pc # "crashed"
    /\ \A m \in mails : m.exc = ""

\* C10: no other record under assessment, no shutdown: when the thread of a
\* record ends, every alarm whose rule evaluates on the record has that
\* result as its state, whatever happened to the other alarms of the list
C10_AlarmsIndependent ==
    [][\A t \in Tasks :
          (/\ \A u \in Tasks \ {t} : tasks[u].pc \in {"idle", "nothread"}
           /\ tasks[t].pc \in {"loop", "cmp", "set", "send"}
           /\ tasks'[t].pc \in {"done", "crashed"}
           /\ stop' # "set")
          => \A a \in DOMAIN alarms :
                LET new_state ==
                        eval_rule(alarms[a],
                                  assess_context(alarms[a], PacketOf(t)))
                IN  new_state # None => state'[a] = new_state]_vars

\* C11 as stated: once the stop signal is set no thread is spawned, no
\* thread enters the assessment of an alarm, no thread starts a
\* notification, and the recorded states and sent notifications stay
C11_NothingStartsAfterStop ==
    [][stop = "set" =>
          /\ \A t \in Tasks :
                /\ tasks[t].pc = "idle" => tasks'[t].pc \in {"idle", "skipped"}
                /\ tasks[t].pc = "loop" => tasks'[t].pc \in {"loop", "done"}
                /\ tasks[t].pc # "send" => tasks'[t].pc # "send"
          /\ mails \subseteq mails'
          /\ \A a \in DOMAIN state :
                state'[a] # state[a] =>
                    \E t \in Tasks : InAssess(t, a) /\ tasks'[t] # tasks[t]]_vars

\* C11: once the stop signal is set it stays set, no thread is spawned, and
\* a thread that reaches the test of the signal in its loop ends without
\* assessing another alarm; an assessment that was under way goes on to its
\* end, write of the state and notification included; what was recorded
\* and sent before stays: states change only by such an assessment, and no
\* sent notification is taken back
C11_StopPreventsNewAssessments ==
    [][stop = "set" =>
          /\ stop' = "set"
          /\ \A t \in Tasks :
                /\ tasks[t].pc = "idle" => tasks'[t].pc \in {"idle", "skipped"}
                /\ tasks[t].pc = "loop" =>
                      \/ tasks'[t] = tasks[t]
                      \/ tasks'[t].pc = "done"
          /\ mails \subseteq mails'
          /\ \A a \in DOMAIN state :
                state'[a] # state[a] =>
                    \E t \in Tasks : InAssess(t, a) /\ tasks'[t] # tasks[t]]_vars

\* C11 witness: after the shutdown the first thread has ended before the
\* second alarm, whose state is still unknown, the notification of the
\* first alarm is kept, and a later record was skipped
C11_Witness ==
    /\ stop = "set"
    /\ Len(alarms) = 2
    /\ tasks[1].pc = "done"
    /\ tasks[2].pc = "skipped"
    /\ state[1] # None
    /\ state[2] = None
    /\ \E m \in mails : m.alarm = 1 /\ m.task = 1

\* thread t has changed the state of its alarm and a notification is due:
\* a transition config is selected and the first state is not suppressed
NotificationDue(t) ==
    /\ tasks[t].pc = "set"
    /\ LET params == ParamsFor(AlarmOf(t), tasks[t].new_state)
       IN  /\ params # None
           /\ ~(tasks[t].old_state = None /\ params["suppress_first"])

\* rendering a template fails: the substitution or the decoding raises
RenderFails(raw, context) ==
    LET substituted == format_map(raw, context)
    IN  \/ substituted.exc # ""
        \/ IsRaise(literal_eval(substituted.parts))

\* C12: when a notification is due and the recipients fail to render, or
\* render to the empty string, the assessment records the new state, sends
\* no email and returns to the loop
C12_NoRecipientsNoMail ==
    [][\A t \in Tasks :
          (/\ NotificationDue(t)
           /\ tasks'[t] # tasks[t]
           /\ LET raw == raw_recipients(ParamsFor(AlarmOf(t),
                                                 tasks[t].new_state))
              IN  \/ RenderFails(raw, EmptySect)
                  \/ eval_string(raw, EmptySect) = Str(""))
          => /\ tasks'[t].pc \in {"loop", "done"}
             /\ mails' = mails
             /\ hostexc' = hostexc
             /\ state'[tasks[t].i] = tasks[t].new_state]_vars

\* C13: when a notification is due and the recipients render to a
\* non-empty string, the assessment goes on to Mailer.send, which it calls
\* once; a subject that fails to render is replaced by the name, the state
\* text, the marker *garbled* and the raw template, a body that fails to
\* render by the marker and the raw template
C13_GarbledFallback ==
    [][\A t \in Tasks :
          /\ (/\ NotificationDue(t)
              /\ tasks'[t] # tasks[t]
              /\ Truthy(eval_string(
                     raw_recipients(ParamsFor(AlarmOf(t), tasks[t].new_state)),
                     EmptySect)))
             => LET alarm == AlarmOf(t)
                    params == ParamsFor(alarm, tasks[t].new_state)
                    context == notification_context(alarm, PacketOf(t), params,
                                                    tasks[t].new_state)
                    raw_subject == params["subject_prefix"] \o params["subject"]
                    raw_body == params["body_prefix"] \o params["body"]
                IN  /\ tasks'[t].pc = "send"
                    /\ RenderFails(raw_subject, context) =>
                          tasks'[t].mail.Subject =
                              alarm.name \o " ["
                              \o state_text(params, tasks[t].new_state)
                              \o "] *garbled* raw='" \o text(raw_subject) \o "'"
                    /\ RenderFails(raw_body, context) =>
                          tasks'[t].mail.Body =
                              "*garbled* raw='" \o text(raw_body) \o "'\n"
          /\ (tasks[t].pc = "send" /\ tasks'[t] # tasks[t])
             => /\ tasks'[t].pc # "send"
                /\ Cardinality(mails') = Cardinality(mails) + 1
                /\ \E m \in mails' \ mails :
                      m.task = t /\ m.mail = tasks[t].mail]_vars

\* C14: a change of state whose transition config is absent records the
\* new state and sends nothing; a later record with the other truth value
\* is then compared with that state, taken as a transition, and notified
\* with the recipients and state text of the other config
C14_AbsentConfigRecordsState ==
    [][\A t \in Tasks :
          tasks'[t] # tasks[t] =>
          /\ (/\ tasks[t].pc = "set"
              /\ ParamsFor(AlarmOf(t), tasks[t].new_state) = None)
             => /\ state'[tasks[t].i] = tasks[t].new_state
                /\ tasks'[t].pc \in {"loop", "done"}
                /\ mails' = mails
          /\ (/\ tasks[t].pc = "cmp"
              /\ state[tasks[t].i] # None
              /\ Truthy(state[tasks[t].i]) # Truthy(tasks[t].new_state))
             => /\ tasks'[t].pc = "set"
                /\ tasks'[t].old_state = state[tasks[t].i]
          /\ (/\ tasks[t].pc = "set"
              /\ tasks[t].old_state # None
              /\ ParamsFor(AlarmOf(t), tasks[t].new_state) # None)
             => LET params == ParamsFor(AlarmOf(t), tasks[t].new_state)
                    recipients == eval_string(raw_recipients(params), EmptySect)
                IN  Truthy(recipients) =>
                       /\ tasks'[t].pc = "send"
                       /\ tasks'[t].mail.To = recipients.v
                       /\ tasks'[t].mail._STATE =
                              state_text(params, tasks[t].new_state)]_vars

\* C14 witness: an alarm without on_clear whose on_set suppresses the first
\* state went Unknown -> Clear without a notification and was then
\* notified of Clear -> Set
C14_Witness ==
    \E m \in mails :
        /\ alarms[m.alarm].on_false_params = None
        /\ alarms[m.alarm].on_true_params["suppress_first"]
        /\ m.old_state = False
        /\ m.new_state = True
        /\ \A n \in mails : n.alarm = m.alarm => n = m

\* C15: a notification is rendered from the transition config of the new
\* state, with _STATE its text_set for a change to Set and its text_clear
\* for a change to Clear; and under an on_set that does not suppress the
\* first state, a first record whose rule is true is notified as Set, a
\* further record whose rule is true is not notified, and a record whose
\* rule is false after that is notified as Clear
C15_NotificationMatchesState ==
    [][\A t \in Tasks :
          tasks'[t] # tasks[t] =>
          LET alarm == AlarmOf(t)
              new_state == tasks[t].new_state
              params == IF Truthy(new_state) THEN alarm.on_true_params
                        ELSE alarm.on_false_params
              notify_first_set ==
                  /\ alarm.on_true_params # None
                  /\ ~alarm.on_true_params["suppress_first"]
              has_recipients ==
                  Truthy(eval_string(raw_recipients(params), EmptySect))
          IN  /\ (tasks[t].pc = "set" /\ tasks'[t].pc = "send")
                 => /\ params # None
                    /\ tasks'[t].mail._STATE =
                          (IF Truthy(new_state) THEN params["text_set"]
                           ELSE params["text_clear"])
                    /\ tasks'[t].mail.To =
                          eval_string(raw_recipients(params), EmptySect).v
              /\ (/\ tasks[t].pc = "cmp"
                  /\ notify_first_set
                  /\ Truthy(new_state)
                  /\ state[tasks[t].i] # None
                  /\ Truthy(state[tasks[t].i]))
                 => tasks'[t].pc \in {"loop", "done"}
              /\ (/\ tasks[t].pc = "set"
                  /\ notify_first_set
                  /\ Truthy(new_state)
                  /\ tasks[t].old_state = None
                  /\ has_recipients)
                 => tasks'[t].pc = "send"
              /\ (/\ tasks[t].pc = "set"
                  /\ notify_first_set
                  /\ ~Truthy(new_state)
                  /\ tasks[t].old_state # None
                  /\ params # None)
                 => (has_recipients => tasks'[t].pc = "send")]_vars

\* C16: new_archive_record gives the record a thread of its own and
\* returns with nothing assessed yet: no state written, nothing sent,
\* nothing raised, the other threads untouched; a record whose thread could
\* not be started is never assessed, and states and notifications change
\* only by threads that were started
C16_DispatchDoesNotWait ==
    [][/\ ntasks' # ntasks =>
             /\ ntasks' = ntasks + 1
             /\ state' = state
             /\ mails' = mails
             /\ hostexc' = hostexc
             /\ \A t \in Tasks \ {ntasks'} : tasks'[t] = tasks[t]
             /\ tasks[ntasks'] = IdleTask
             /\ \/ tasks'[ntasks'] \in {[IdleTask EXCEPT !.pc = "nothread"],
                                        [IdleTask EXCEPT !.pc = "skipped"]}
                \/ \E packet \in Packets :
                      tasks'[ntasks'] = [IdleTask EXCEPT !.pc = "loop", !.i = 1,
                                                         !.packet = packet]
       /\ \A t \in Tasks :
             tasks[t].pc = "nothread" => tasks'[t] = tasks[t]
       /\ (mails' # mails \/ \E a \in DOMAIN state : state'[a] # state[a]) =>
             \E t \in Tasks : /\ tasks[t].pc \in {"set", "send"}
                              /\ tasks'[t] # tasks[t]]_vars

\* C16 witness: the thread of the first record could not be started and
\* no state was written for it; the engine has gone on to deliver a second
\* record and to call shutDown while the thread of that record is still in
\* Mailer.send
C16_Witness ==
    /\ tasks[1].pc = "nothread"
    /\ tasks[2].pc = "send"
    /\ stop = "set"
    /\ hostexc = {}
    /\ \A a \in DOMAIN state : a # tasks[2].i => state[a] = None

\* C17: whenever Mailer.send opened a connection to the relay, the
\* connection is closed when send returns or raises
C17_ConnectionReleased ==
    \A m \in mails : m.opened => m.closed

\* C17 witness: one send had its message refused on an open connection and
\* returned, another raised out of quit; both left the connection closed
C17_Witness ==
    \E m1, m2 \in mails :
        /\ m1.opened /\ ~m1.delivered /\ m1.exc = "" /\ m1.closed
        /\ m2.opened /\ m2.exc # "" /\ m2.closed

\* the states the notify_first values of the model list
Listed(notify_first) ==
    CASE notify_first \in {"Set", "set"} -> {"set"}
      [] notify_first \in {"Clear", "clear"} -> {"clear"}
      [] notify_first \in {"Clear,Set", "clear,set"} -> {"clear", "set"}
      [] OTHER -> {}

\* the transition config the claim expects for the sub-section on_sect of
\* a group mgr_sect: overrides over group defaults, suppress_first from the
\* local boolean or else from notify_first
Resolved(on_sect, mgr_sect, on_state) ==
    LET group == on_defaults(mgr_sect)
        notify_first == IF "notify_first" \in DOMAIN mgr_sect
                        THEN mgr_sect["notify_first"] ELSE ""
        fields == {"recipients", "text_set", "text_clear", "subject_prefix",
                   "subject", "body_prefix", "body"}
    IN  [key \in fields \cup {"suppress_first"} |->
            IF key = "suppress_first"
            THEN IF key \in DOMAIN on_sect
                 THEN on_sect[key] \in {"true", "True", "yes", "y", "1"}
                 ELSE on_state \notin Listed(notify_first)
            ELSE IF key \in DOMAIN on_sect THEN on_sect[key] ELSE group[key]]

\* C18: at every moment after construction each alarm carries the name and
\* rule of its section and, for on_set and on_clear, the config resolved
\* from that section and the group (so none of it ever changes); and a
\* first observed state is notified only under a config that does not
\* suppress it, never under the default notify_first without a local
\* suppress_first
C18_ConfigsResolvedOnce ==
    /\ svc = "bound" =>
          /\ Len(alarms) = Len(UsableSections)
          /\ \A a \in DOMAIN alarms :
                LET sect == UsableSections[a][2]
                IN  /\ alarms[a].name = UsableSections[a][1]
                    /\ alarms[a].rule = sect["rule"]
                    /\ alarms[a].on_true_params =
                          (IF "on_set" \in DOMAIN sect
                           THEN Resolved(sect["on_set"], cfg["Alarms"], "set")
                           ELSE None)
                    /\ alarms[a].on_false_params =
                          (IF "on_clear" \in DOMAIN sect
                           THEN Resolved(sect["on_clear"], cfg["Alarms"],
                                         "clear")
                           ELSE None)
    /\ \A m \in mails :
          m.old_state = None =>
             LET sect == UsableSections[m.alarm][2]
                 on_sect == IF Truthy(m.new_state) THEN sect["on_set"]
                            ELSE sect["on_clear"]
             IN  \/ /\ "suppress_first" \in DOMAIN on_sect
                    /\ on_sect["suppress_first"] \notin
                          {"true", "True", "yes", "y", "1"}
                 \/ /\ "suppress_first" \notin DOMAIN on_sect
                    /\ "notify_first" \in DOMAIN cfg["Alarms"]
                    /\ (IF Truthy(m.new_state) THEN "set" ELSE "clear")
                          \in Listed(cfg["Alarms"]["notify_first"])

\* C18 witness: under notify_first = Set the first state of "Hot", whose
\* on_set gives no suppress_first, was notified, next to an alarm whose
\* on_clear gives an unparsable suppress_first
C18_Witness ==
    /\ svc = "bound"
    /\ \E m \in mails :
          /\ alarms[m.alarm].name = "Hot"
          /\ m.old_state = None
    /\ \E a \in DOMAIN alarms :
          /\ alarms[a].name = "Battery Bits"
          /\ ~alarms[a].on_false_params["suppress_first"]

\* a string of plain characters: no placeholder and no backslash escape
Plain(parts) ==
    \A n \in DOMAIN parts :
        "var" \notin DOMAIN parts[n] /\ "esc" \notin DOMAIN parts[n]

\* the addresses of a list, each as it is written, with a comma between
\* one and the next
RECURSIVE CommaSeparated(_)
CommaSeparated(items) ==
    IF items = << >> THEN ""
    ELSE IF Len(items) = 1 THEN text(items[1])
    ELSE text(items[1]) \o "," \o CommaSeparated(Tail(items))

\* C19: the To field handed to Mailer.send is, for recipients configured
\* as a list of addresses, the addresses in their order with single commas
\* between them (a@x.com,b@y.com for the list a@x.com, b@y.com), and for
\* recipients configured as one string that string unchanged
C19_RecipientsJoined ==
    \A m \in mails :
        LET recipients == ParamsFor(alarms[m.alarm], m.new_state)["recipients"]
        IN  /\ (recipients.t = "list"
                /\ \A n \in DOMAIN recipients.items : Plain(recipients.items[n]))
               => m.mail.To = CommaSeparated(recipients.items)
            /\ recipients = List(<<Addr("a@x.com"), Addr("b@y.com")>>)
               => m.mail.To = "a@x.com,b@y.com"
            /\ (recipients.t = "text" /\ Plain(recipients.parts))
               => m.mail.To = text(recipients.parts)

\* C19 witness: one notification went to the two addresses of the group's
\* list, another to the single string of an on_set section
C19_Witness ==
    \E m1, m2 \in mails :
        /\ ParamsFor(alarms[m1.alarm], m1.new_state)["recipients"].t = "list"
        /\ m1.mail.To = "a@x.com,b@y.com"
        /\ ParamsFor(alarms[m2.alarm], m2.new_state)["recipients"].t = "text"
        /\ m2.mail.To = "ops@x.com"

\* C20: the recorded state is the truth value of the rule result: a write
\* of an alarm's state changes it between Unknown, Clear and Set, and every
\* notification is for such a change; records whose results differ only in
\* their raw value (2, then 6) write nothing and notify nothing
C20_StateIsTruthValue ==
    [][/\ \A a \in DOMAIN state :
             state'[a] # state[a] =>
                AlarmState(state'[a]) # AlarmState(state[a])
       /\ \A m \in mails' :
             AlarmState(m.new_state) # AlarmState(m.old_state)]_vars

\* C21: shutDown never raises to the engine, whatever construction left
\* behind: a service that made itself inert at startup too completes a
\* later shutDown normally
C21_ShutDownNeverRaises ==
    \A e \in hostexc : e.in # "shutDown"

\* thread t, still running, is past the write of the state of alarm a, or
\* past the comparison that found it up to date, for a record on which the
\* rule of a evaluates
HasRecorded(t, a) ==
    /\ tasks[t].pc \in {"loop", "cmp", "set", "send"}
    /\ \/ tasks[t].i > a
       \/ tasks[t].i = a /\ tasks[t].pc = "send"
    /\ eval_rule(alarms[a], assess_context(alarms[a], PacketOf(t))) # None

\* C22: records take effect in the order of their arrival: the thread of
\* an older record never overwrites the state that the thread of a newer
\* record has recorded for an alarm, so that the state left behind is that
\* of the newest record
C22_ArrivalOrder ==
    [][\A t1, t2 \in Tasks :
          (/\ t1 < t2
           /\ tasks[t1].pc = "set"
           /\ tasks'[t1] # tasks[t1]
           /\ HasRecorded(t2, tasks[t1].i))
          => state'[tasks[t1].i] = state[tasks[t1].i]]_vars


\* how far thread t has come in assess_all_alarms: the alarms behind it and
\* its position within the assessment of the current one
Progress(t) ==
    4 * tasks[t].i + CASE tasks[t].pc = "loop" -> 0
                       [] tasks[t].pc = "cmp" -> 1
                       [] tasks[t].pc = "set" -> 2
                       [] tasks[t].pc = "send" -> 3
                       [] OTHER -> 0

\* the thread has ended: by the end of the list, by the stop signal, or by
\* an exception that escaped an assessment
Ended(t) == tasks[t].pc \in {"done", "crashed"}

\* C23: every started thread whose mail deliveries return ends: each of
\* its steps takes it forward in the list of alarms, so that it enters the
\* assessment of each alarm at most once, and an ended thread stays ended;
\* once the stop signal is set a thread enters no further assessment: it
\* completes at most the one it is in and ends at the next test of the
\* signal, with alarms left over
C23_ThreadTerminates ==
    /\ [][\A t \in Tasks :
             /\ t \in InFlight /\ tasks'[t] # tasks[t] =>
                   \/ Ended(t)'
                   \/ /\ t \in InFlight'
                      /\ Progress(t)' > Progress(t)
                      /\ tasks'[t].i <= Len(alarms)
             /\ Ended(t) => tasks'[t] = tasks[t]
             /\ stop = "set" /\ InAssess(t, tasks[t].i)' =>
                   InAssess(t, tasks'[t].i)]_vars
    /\ \A t \in Tasks :
          []<>(tasks[t].pc # "send") => ((t \in InFlight) ~> Ended(t))

\* C23 witness: the stop signal found the first thread in the assessment of
\* the first of two alarms; the thread completed it, notification included,
\* and ended without assessing the second, whose rule evaluates on the
\* record
C23_Witness ==
    /\ stop = "set"
    /\ Len(alarms) = 2
    /\ tasks[1].pc = "done"
    /\ tasks[2].pc = "idle"
    /\ state[1] # None
    /\ state[2] = None
    /\ \E m \in mails :
          /\ m.alarm = 1 /\ m.task = 1 /\ m.exc = ""
          /\ \A p \in Packets :
                eval_rule(alarms[1], assess_context(alarms[1], p)) = m.new_state
                => eval_rule(alarms[2], assess_context(alarms[2], p)) # None

====
